---- MODULE Spec2Model ----
(***************************************************************************)
(* Command registry, dispatcher and typed parameter binding of the shell. *)
(*                                                                         *)
(* A token is a sequence of one-character strings.  A parameter type is   *)
(* the sequence of its type constructors, outermost first:                *)
(* <<"Option", "Vec", "u8">> is Option<Vec<u8>>.                          *)
(***************************************************************************)
EXTENDS Integers, Sequences, FiniteSets, TLC

VARIABLES commands, phase, expanded, call, conv, pc, shell, dir_stack, cwd, dir_call

\* commands, phase, expanded, call: the registry and the last dispatched call;
\* conv: the last single conversion; pc: the step a call in flight has reached;
\* shell: what the read loop did with the last line; dir_stack, cwd,
\* dir_call: the pushd/popd stack, the working directory and the last
\* pushd/popd.
vars == <<commands, phase, expanded, call, conv, pc, shell, dir_stack, cwd, dir_call>>

aux == <<conv, pc, shell, dir_stack, cwd, dir_call>>

(***************************************************************************)
(* Bounds                                                                  *)
(***************************************************************************)
MaxCommands == 2
MaxParams == 3
MaxArgs == 3
MaxStack == 3

\* usize::MAX, the "unbounded" sentinel of CommandInfo.max.  Only compared,
\* never computed with; the model uses the largest integer TLC represents.
USIZE_MAX == 2147483647

\* u8::MAX, the overflow limit of the u8 converter.
U8_MAX == 255

SeqsUpTo(S, n) == UNION {[1..k -> S] : k \in 0..n}

(***************************************************************************)
(* Input sets                                                              *)
(***************************************************************************)
Names == {<<"l", "s">>, <<"q">>}
NameTokens == Names \cup {<<"L", "S">>}
ArgTokens == {<<"7">>, <<"x">>, <<"3", "0", "0">>, <<"+", "9">>}
BaseTypes == {"String", "u8"}
Types ==
  UNION {{<<b>>, <<"Option", b>>, <<"Vec", b>>, <<"Option", "Vec", b>>} : b \in BaseTypes}
RegArgTokens == {<<"7">>, <<"x">>}
RegAliases == {<<>>, << <<"q">> >>, << <<"l", "s">>, <<"q">> >>}
RegShapes == {<<>>, << <<"String">> >>, << <<"Vec", "u8">> >>}
FnOutcomes == {[tag |-> "Ok"], [tag |-> "CommandFailed", msg |-> <<"io error">>]}

\* Every spelling of a word in upper and lower case letters.
CaseVariants(w) ==
  LET to_upper(c) ==
        CASE c = "t" -> "T" [] c = "r" -> "R" [] c = "u" -> "U" [] c = "e" -> "E"
          [] c = "f" -> "F" [] c = "a" -> "A" [] c = "l" -> "L" [] c = "s" -> "S"
          [] OTHER -> c
  IN {[k \in DOMAIN w |-> IF k \in U THEN to_upper(w[k]) ELSE w[k]] : U \in SUBSET DOMAIN w}

ConvTokens ==
  CaseVariants(<<"t", "r", "u", "e">>) \cup CaseVariants(<<"f", "a", "l", "s", "e">>)
    \cup {<<>>, <<"1">>, <<"0">>, <<"y", "e", "s">>, <<"Y">>, <<"t">>, <<"0", "1">>,
          <<"t", "r", "u", "e", "e">>, <<"t", "r", "u", "e", "1">>, <<"2">>,
          <<"7">>, <<"x">>, <<"3", "0", "0">>, <<"+", "9">>, <<"-", "1">>, <<"+">>}

(***************************************************************************)
(* CommandError                                                            *)
(***************************************************************************)
Ok == [tag |-> "Ok"]
TooFewArguments(n, info) == [tag |-> "TooFewArguments", given |-> n, info |-> info]
TooManyArguments(n, info) == [tag |-> "TooManyArguments", given |-> n, info |-> info]
CommandNotFound(s) == [tag |-> "CommandNotFound", name |-> s]
CommandFailed(m) == [tag |-> "CommandFailed", msg |-> m]

(***************************************************************************)
(* ParseArgument                                                           *)
(***************************************************************************)
None == [none |-> TRUE]
Some(v) == [some |-> v]
IsSome(o) == "some" \in DOMAIN o

Digits == {"0", "1", "2", "3", "4", "5", "6", "7", "8", "9"}
DigitVal(c) ==
  CASE c = "0" -> 0 [] c = "1" -> 1 [] c = "2" -> 2 [] c = "3" -> 3 [] c = "4" -> 4
    [] c = "5" -> 5 [] c = "6" -> 6 [] c = "7" -> 7 [] c = "8" -> 8 [] c = "9" -> 9

\* Accumulates base-10 digits left to right; -1 on a non-digit or on overflow.
RECURSIVE ParseDigits(_, _, _)
ParseDigits(s, acc, max) ==
  IF s = <<>> THEN acc
  ELSE IF Head(s) \notin Digits THEN -1
  ELSE LET next == acc * 10 + DigitVal(Head(s))
       IN IF next > max THEN -1 ELSE ParseDigits(Tail(s), next, max)

\* str::parse::<u8>: an optional leading '+', then at least one digit.
ParseU8(s) ==
  LET digits == IF s # <<>> /\ Head(s) = "+" THEN Tail(s) ELSE s
      v == IF digits = <<>> THEN -1 ELSE ParseDigits(digits, 0, U8_MAX)
  IN IF v < 0 THEN [err |-> CommandFailed(<<"Invalid ", "u8", ": '">> \o s \o <<"'">>)]
     ELSE [ok |-> v]

ParseString(s) == [ok |-> s]

\* chars.next() is Some and the next chars.next() is None.
ParseChar(s) ==
  IF Len(s) = 1 THEN [ok |-> s[1]]
  ELSE [err |-> CommandFailed(<<"Invalid char: '">> \o s \o <<"'">>)]

\* char::to_lowercase on the letters the model's tokens use.
to_lower(c) ==
  CASE c = "T" -> "t" [] c = "R" -> "r" [] c = "U" -> "u" [] c = "E" -> "e"
    [] c = "F" -> "f" [] c = "A" -> "a" [] c = "L" -> "l" [] c = "S" -> "s"
    [] c = "Y" -> "y" [] c = "Q" -> "q" [] OTHER -> c

to_lowercase(s) == [k \in DOMAIN s |-> to_lower(s[k])]

\* Variant: the token is matched as typed, without lowercasing.
ParseBool_as_typed(s) ==
  IF s \in {<<"t", "r", "u", "e">>, <<"1">>} THEN [ok |-> TRUE]
  ELSE IF s \in {<<"f", "a", "l", "s", "e">>, <<"0">>} THEN [ok |-> FALSE]
  ELSE [err |-> CommandFailed(<<"Invalid bool: '">> \o s \o <<"'">>)]

ParseBool(s) ==
  LET l == to_lowercase(s)
  IN IF l = <<"t", "r", "u", "e">> \/ l = <<"1">> THEN [ok |-> TRUE]
     ELSE IF l = <<"f", "a", "l", "s", "e">> \/ l = <<"0">> THEN [ok |-> FALSE]
     ELSE [err |-> CommandFailed(<<"Invalid bool: '">> \o s \o <<"'">>)]

\* The types with a ParseArgument impl that the model covers.
ImplTypes == {"String", "u8", "bool", "char"}

HasParseImpl(ty) == Len(ty) = 1 /\ ty[1] \in BaseTypes

\* <T as ParseArgument>::parse for the parameter types of the modelled
\* sites.
Parse(ty, s) ==
  CASE ty = <<"String">> -> ParseString(s)
    [] ty = <<"u8">> -> ParseU8(s)

\* <T as ParseArgument>::parse for every type of ImplTypes.
parse(ty, s) ==
  CASE ty = "bool" -> ParseBool(s)
    [] ty = "char" -> ParseChar(s)
    [] OTHER -> Parse(<<ty>>, s)

IsErr(r) == "err" \in DOMAIN r

(***************************************************************************)
(* The #[command] attribute macro                                          *)
(***************************************************************************)
extract_option_inner(ty) ==
  IF Len(ty) > 1 /\ ty[1] = "Option" THEN Some(Tail(ty)) ELSE None

extract_vec_inner(ty) ==
  IF Len(ty) > 1 /\ ty[1] = "Vec" THEN Some(Tail(ty)) ELSE None

\* Variant: a Vec<T> parameter is left out of the count as well.
min_count_skip_vec(args) ==
  Cardinality({i \in DOMAIN args : /\ ~IsSome(extract_option_inner(args[i]))
                                   /\ ~IsSome(extract_vec_inner(args[i]))})

min_count(args) ==
  Cardinality({i \in DOMAIN args : ~IsSome(extract_option_inner(args[i]))})

\* <<is_last_vec, last_vec_inner, is_last_option_vec>>
detect_last_arg(args) ==
  IF args # <<>>
  THEN LET last_ty == args[Len(args)]
           vec_inner == extract_vec_inner(last_ty)
           opt_inner == extract_option_inner(last_ty)
           option_vec_inner ==
             IF IsSome(opt_inner) THEN extract_vec_inner(opt_inner.some) ELSE None
       IN <<IsSome(vec_inner),
            IF IsSome(vec_inner) THEN vec_inner ELSE option_vec_inner,
            IsSome(option_vec_inner)>>
  ELSE <<FALSE, None, FALSE>>

total_args(site) == Len(site.params)

min_args(site) == min_count(site.params)

max_args(site) ==
  IF detect_last_arg(site.params)[1] THEN USIZE_MAX ELSE total_args(site)

\* The CommandInfo static the macro emits; handler identifies the generated
\* handler struct and params is the parameter list its call() binds.
command(site, handler) ==
  [name    |-> site.name,
   aliases |-> site.aliases,
   min     |-> min_args(site),
   max     |-> max_args(site),
   handler |-> handler,
   params  |-> site.params]

(***************************************************************************)
(* Generated binding code                                                  *)
(***************************************************************************)
\* idx is the zero-based position; args[idx] in Rust is args[idx + 1] here.
parse_single(ty, idx, args, info) ==
  LET inner == extract_option_inner(ty)
  IN IF IsSome(inner)
     THEN IF Len(args) > idx
          THEN LET r == Parse(inner.some, args[idx + 1])
               IN IF IsErr(r) THEN r ELSE [ok |-> Some(r.ok)]
          ELSE [ok |-> None]
     ELSE IF Len(args) <= idx
          THEN [err |-> TooFewArguments(Len(args), info)]
          ELSE Parse(ty, args[idx + 1])

\* Variant: every token is converted and the last failure is the one kept.
collect_last_error(inner_ty, toks, acc) ==
  LET bad == {j \in DOMAIN toks : IsErr(Parse(inner_ty, toks[j]))}
  IN IF bad = {}
     THEN [ok |-> acc \o [j \in DOMAIN toks |-> Parse(inner_ty, toks[j]).ok]]
     ELSE Parse(inner_ty, toks[CHOOSE j \in bad : \A k \in bad : k <= j])

\* Variant: the converted values are gathered in reverse order.
RECURSIVE collect_reversed(_, _, _)
collect_reversed(inner_ty, toks, acc) ==
  IF toks = <<>> THEN [ok |-> acc]
  ELSE LET r == Parse(inner_ty, Head(toks))
       IN IF IsErr(r) THEN r ELSE collect_reversed(inner_ty, Tail(toks), <<r.ok>> \o acc)

\* args[i..].iter().map(parse).collect::<Result<Vec<_>, _>>()
RECURSIVE collect(_, _, _)
collect(inner_ty, toks, acc) ==
  IF toks = <<>> THEN [ok |-> acc]
  ELSE LET r == Parse(inner_ty, Head(toks))
       IN IF IsErr(r) THEN r ELSE collect(inner_ty, Tail(toks), Append(acc, r.ok))

\* Variant: a required Vec<T> with no token left binds the empty vector.
parse_expr_empty_vec(params, i, args, info) ==
  LET d == detect_last_arg(params)
      last == IF Len(params) = 0 THEN 0 ELSE Len(params) - 1
      ty == params[i + 1]
  IN IF i < last THEN parse_single(ty, i, args, info)
     ELSE IF d[1]
     THEN collect(d[2].some, SubSeq(args, i + 1, Len(args)), <<>>)
     ELSE parse_single(ty, i, args, info)

\* The let-statement generated for parameter i (zero-based).
parse_expr(params, i, args, info) ==
  LET d == detect_last_arg(params)
      is_last_vec == d[1]
      last_vec_inner == d[2]
      is_last_option_vec == d[3]
      last == IF Len(params) = 0 THEN 0 ELSE Len(params) - 1
      ty == params[i + 1]
  IN IF i < last THEN parse_single(ty, i, args, info)
     ELSE IF is_last_vec
     THEN IF is_last_option_vec
          THEN IF Len(args) > i
               THEN LET r == collect(last_vec_inner.some, SubSeq(args, i + 1, Len(args)), <<>>)
                    IN IF IsErr(r) THEN r ELSE [ok |-> Some(r.ok)]
               ELSE [ok |-> None]
          ELSE IF Len(args) <= i
               THEN [err |-> TooFewArguments(Len(args), info)]
               ELSE collect(last_vec_inner.some, SubSeq(args, i + 1, Len(args)), <<>>)
     ELSE parse_single(ty, i, args, info)

\* #(#parse_exprs)* : the statements run in parameter order, `?` and
\* `return Err` leave at the first failure.
RECURSIVE generate_parse_exprs(_, _, _, _, _)
generate_parse_exprs(params, i, args, info, bound) ==
  IF i >= Len(params) THEN [ok |-> bound]
  ELSE LET r == parse_expr(params, i, args, info)
       IN IF IsErr(r) THEN r
          ELSE generate_parse_exprs(params, i + 1, args, info, Append(bound, r.ok))

\* The type each generated <T as ParseArgument>::parse is instantiated at.
parse_type(params, i) ==
  LET d == detect_last_arg(params)
      last == IF Len(params) = 0 THEN 0 ELSE Len(params) - 1
      ty == params[i + 1]
      inner == extract_option_inner(ty)
  IN IF i >= last /\ d[1] THEN d[2].some
     ELSE IF IsSome(inner) THEN inner.some ELSE ty

\* The expansion type-checks only if every such type implements ParseArgument.
Compiles(params) ==
  \A i \in 0..(Len(params) - 1) : HasParseImpl(parse_type(params, i))

\* Variant: a failure of the command function is re-wrapped by the adapter.
handler_call_wrap_failure(info, args, world) ==
  IF Len(args) < info.min
  THEN [result |-> TooFewArguments(Len(args), info), invoked |-> <<>>]
  ELSE IF Len(args) > info.max
  THEN [result |-> TooManyArguments(Len(args), info), invoked |-> <<>>]
  ELSE LET b == generate_parse_exprs(info.params, 0, args, info, <<>>)
       IN IF IsErr(b)
          THEN [result |-> b.err, invoked |-> <<>>]
          ELSE [result |-> IF world = Ok THEN Ok ELSE CommandFailed(<<"command failed">>),
                invoked |-> <<[handler |-> info.handler, args |-> b.ok]>>]

\* call() of the generated handler struct; world is what the command
\* function itself returns when it is run.
handler_call(info, args, world) ==
  IF Len(args) < info.min
  THEN [result |-> TooFewArguments(Len(args), info), invoked |-> <<>>]
  ELSE IF Len(args) > info.max
  THEN [result |-> TooManyArguments(Len(args), info), invoked |-> <<>>]
  ELSE LET b == generate_parse_exprs(info.params, 0, args, info, <<>>)
       IN IF IsErr(b)
          THEN [result |-> b.err, invoked |-> <<>>]
          ELSE [result |-> world,
                invoked |-> <<[handler |-> info.handler, args |-> b.ok]>>]

(***************************************************************************)
(* CommandRegistry                                                         *)
(***************************************************************************)
\* Variant: names and aliases are compared ignoring case.
Matches_ignore_case(info, name) ==
  \/ to_lowercase(info.name) = to_lowercase(name)
  \/ \E k \in DOMAIN info.aliases : to_lowercase(info.aliases[k]) = to_lowercase(name)

Matches(info, name) ==
  info.name = name \/ \E k \in DOMAIN info.aliases : info.aliases[k] = name

\* Variant: only the first entry of the slice is looked at.
find_in_first_entry(cmds, name) ==
  IF cmds # <<>> /\ Matches(cmds[1], name) THEN Some(cmds[1]) ELSE None

\* find over a COMMANDS slice laid out as cmds.
find_in(cmds, name) ==
  LET hits == {i \in DOMAIN cmds : Matches(cmds[i], name)}
  IN IF hits = {} THEN None
     ELSE Some(cmds[CHOOSE i \in hits : \A j \in hits : i <= j])

find(name) == find_in(commands, name)

\* Variant: the error carries the required count instead of the given one.
execute_command_required_count(name, args, world) ==
  LET hits == {i \in DOMAIN commands :
                 \/ commands[i].name = name
                 \/ \E k \in DOMAIN commands[i].aliases : commands[i].aliases[k] = name}
  IN IF hits # {}
     THEN LET info == commands[CHOOSE i \in hits : \A j \in hits : i <= j]
              r == IF Len(args) < info.min
                   THEN [result |-> TooFewArguments(info.min, info), invoked |-> <<>>]
                   ELSE IF Len(args) > info.max /\ info.max # USIZE_MAX
                   THEN [result |-> TooManyArguments(Len(args), info), invoked |-> <<>>]
                   ELSE handler_call(info, args, world)
          IN [result |-> r.result, invoked |-> r.invoked, found |-> Some(info)]
     ELSE [result |-> CommandNotFound(name), invoked |-> <<>>, found |-> None]

\* Variant: the upper-bound branch returns the lower-bound error.
execute_command_wrong_variant(name, args, world) ==
  LET hits == {i \in DOMAIN commands :
                 \/ commands[i].name = name
                 \/ \E k \in DOMAIN commands[i].aliases : commands[i].aliases[k] = name}
  IN IF hits # {}
     THEN LET info == commands[CHOOSE i \in hits : \A j \in hits : i <= j]
              r == IF Len(args) < info.min
                   THEN [result |-> TooFewArguments(Len(args), info), invoked |-> <<>>]
                   ELSE IF Len(args) > info.max /\ info.max # USIZE_MAX
                   THEN [result |-> TooFewArguments(Len(args), info), invoked |-> <<>>]
                   ELSE handler_call(info, args, world)
          IN [result |-> r.result, invoked |-> r.invoked, found |-> Some(info)]
     ELSE [result |-> CommandNotFound(name), invoked |-> <<>>, found |-> None]

\* result is what the call returns, invoked the log of command functions
\* it ran and found the descriptor the lookup resolved.
execute_command_in(cmds, name, args, world) ==
  LET found == find_in(cmds, name)
  IN IF IsSome(found)
     THEN LET info == found.some
              r == IF Len(args) < info.min
                   THEN [result |-> TooFewArguments(Len(args), info), invoked |-> <<>>]
                   ELSE IF Len(args) > info.max /\ info.max # USIZE_MAX
                   THEN [result |-> TooManyArguments(Len(args), info), invoked |-> <<>>]
                   ELSE handler_call(info, args, world)
          IN [result |-> r.result, invoked |-> r.invoked, found |-> found]
     ELSE [result |-> CommandNotFound(name), invoked |-> <<>>, found |-> None]

execute_command(name, args, world) == execute_command_in(commands, name, args, world)

(***************************************************************************)
(* State machine                                                           *)
(***************************************************************************)
Shapes(types, n) == SeqsUpTo(types, n)

Sites(names, aliasLists, shapes) ==
  {[name |-> n, aliases |-> a, params |-> p] : n \in names, a \in aliasLists, p \in shapes}

RegSites == Sites(Names, RegAliases, RegShapes)
BindSites == Sites({<<"l", "s">>}, {<< <<"q">> >>}, Shapes(Types, MaxParams))

NoCall == [tag |-> "none"]

Init ==
  /\ commands = <<>>
  /\ phase = "Building"
  /\ expanded = None
  /\ call = NoCall
  /\ conv = None
  /\ pc = "Idle"
  /\ shell = None
  /\ dir_stack = <<>>
  /\ cwd = <<>>
  /\ dir_call = NoCall

\* One #[command] site is expanded and, if the expansion type-checks, its
\* CommandInfo joins the COMMANDS slice; otherwise the build stops.
Command(site) ==
  LET info == command(site, Len(commands) + 1)
  IN /\ expanded' = Some(info)
     /\ IF Compiles(site.params)
        THEN commands' = Append(commands, info) /\ phase' = phase
        ELSE phase' = "Rejected" /\ UNCHANGED commands
     /\ UNCHANGED <<call, aux>>

\* The linker closes the distributed slice; the program starts.
Link ==
  /\ phase = "Building"
  /\ phase' = "Frozen"
  /\ UNCHANGED <<commands, expanded, call, aux>>

\* One synchronous call issued by the caller's loop.
ExecuteCommand(name, args, world) ==
  LET r == execute_command(name, args, world)
  IN /\ call' = [name |-> name, args |-> args, world |-> world,
                 result |-> r.result, invoked |-> r.invoked, found |-> r.found]
     /\ UNCHANGED <<commands, phase, expanded, aux>>

\* The call has returned; the caller goes back to reading input.
Return ==
  /\ call # NoCall
  /\ call' = NoCall
  /\ UNCHANGED <<commands, phase, expanded, aux>>

Register ==
  /\ phase = "Building"
  /\ Len(commands) < MaxCommands
  /\ \E site \in RegSites : Command(site)

Execute ==
  /\ phase = "Frozen"
  /\ call = NoCall
  /\ \E name \in NameTokens, args \in SeqsUpTo(RegArgTokens, MaxArgs), world \in FnOutcomes :
       ExecuteCommand(name, args, world)

Next == Register \/ Link \/ Execute \/ Return

Spec == Init /\ [][Next]_vars

RegisterBind ==
  /\ phase = "Building"
  /\ Len(commands) < 1
  /\ \E site \in BindSites : Command(site)

ExecuteBind ==
  /\ phase = "Frozen"
  /\ call = NoCall
  /\ \E name \in NameTokens, args \in SeqsUpTo(ArgTokens, MaxArgs), world \in FnOutcomes :
       ExecuteCommand(name, args, world)

NextBind == RegisterBind \/ Link \/ ExecuteBind \/ Return

SpecBind == Init /\ [][NextBind]_vars

\* One token is handed to the converter of one type.
ParseArgument(ty, raw) ==
  /\ conv' = Some([ty |-> ty, raw |-> raw, out |-> parse(ty, raw)])
  /\ UNCHANGED <<commands, phase, expanded, call, pc, shell, dir_stack, cwd, dir_call>>

NextParse == \E ty \in ImplTypes, raw \in ConvTokens : ParseArgument(ty, raw)

SpecParse == Init /\ [][NextParse]_vars

(***************************************************************************)
(* One call, step by step                                                  *)
(***************************************************************************)
\* A command function that never returns.
Diverges == [tag |-> "Diverges"]

PhaseShapes ==
  {<<>>,
   << <<"u8">> >>,
   << <<"Vec", "u8">> >>,
   << <<"String">>, <<"Option", "u8">> >>,
   << <<"String">>, <<"Vec", "u8">> >>,
   << <<"Option", "String">>, <<"String">> >>}

PhaseSites == Sites({<<"l", "s">>}, {<< <<"q">> >>}, PhaseShapes)

\* Each operator below takes the record of the call in flight and gives the
\* step reached next together with the updated record.
Resolving(c) ==
  LET found == find(c.name)
  IN IF IsSome(found)
     THEN [pc |-> "ArityChecking", call |-> [c EXCEPT !.found = found]]
     ELSE [pc |-> "Done", call |-> [c EXCEPT !.result = Some(CommandNotFound(c.name))]]

ArityChecking(c) ==
  LET info == c.found.some
  IN IF Len(c.args) < info.min
     THEN [pc |-> "Done",
           call |-> [c EXCEPT !.result = Some(TooFewArguments(Len(c.args), info))]]
     ELSE IF Len(c.args) > info.max /\ info.max # USIZE_MAX
     THEN [pc |-> "Done",
           call |-> [c EXCEPT !.result = Some(TooManyArguments(Len(c.args), info))]]
     ELSE [pc |-> "Binding", call |-> c]

\* Variant: a failed conversion does not end the call.
Binding_ignores_error(c) ==
  LET info == c.found.some
      b == generate_parse_exprs(info.params, 0, c.args, info, <<>>)
  IN [pc |-> "Invoking", call |-> [c EXCEPT !.bound = IF IsErr(b) THEN <<>> ELSE b.ok]]

\* The generated call() up to the command function's call: its own two
\* count checks, then the positional conversions.
Binding(c) ==
  LET info == c.found.some
  IN IF Len(c.args) < info.min
     THEN [pc |-> "Done",
           call |-> [c EXCEPT !.result = Some(TooFewArguments(Len(c.args), info))]]
     ELSE IF Len(c.args) > info.max
     THEN [pc |-> "Done",
           call |-> [c EXCEPT !.result = Some(TooManyArguments(Len(c.args), info))]]
     ELSE LET b == generate_parse_exprs(info.params, 0, c.args, info, <<>>)
          IN IF IsErr(b)
             THEN [pc |-> "Done", call |-> [c EXCEPT !.result = Some(b.err)]]
             ELSE [pc |-> "Invoking", call |-> [c EXCEPT !.bound = b.ok]]

Invoking(c) ==
  [pc |-> "Done",
   call |-> [c EXCEPT !.invoked = <<[handler |-> c.found.some.handler, args |-> c.bound]>>,
                      !.result = Some(c.world)]]

RegisterPhases ==
  /\ phase = "Building"
  /\ Len(commands) < 1
  /\ \E site \in PhaseSites : Command(site)

Enter ==
  /\ phase = "Frozen"
  /\ pc = "Idle"
  /\ \E name \in NameTokens, args \in SeqsUpTo(RegArgTokens, MaxArgs),
        world \in FnOutcomes \cup {Diverges} :
       call' = [name |-> name, args |-> args, world |-> world, found |-> None,
                bound |-> <<>>, invoked |-> <<>>, result |-> None]
  /\ pc' = "Resolving"
  /\ UNCHANGED <<commands, phase, expanded, conv, shell, dir_stack, cwd, dir_call>>

Resolve ==
  /\ pc = "Resolving"
  /\ pc' = Resolving(call).pc
  /\ call' = Resolving(call).call
  /\ UNCHANGED <<commands, phase, expanded, conv, shell, dir_stack, cwd, dir_call>>

ArityCheck ==
  /\ pc = "ArityChecking"
  /\ pc' = ArityChecking(call).pc
  /\ call' = ArityChecking(call).call
  /\ UNCHANGED <<commands, phase, expanded, conv, shell, dir_stack, cwd, dir_call>>

Bind ==
  /\ pc = "Binding"
  /\ pc' = Binding(call).pc
  /\ call' = Binding(call).call
  /\ UNCHANGED <<commands, phase, expanded, conv, shell, dir_stack, cwd, dir_call>>

\* The command function runs; nothing follows if it never returns.
Invoke ==
  /\ pc = "Invoking"
  /\ call.world # Diverges
  /\ pc' = Invoking(call).pc
  /\ call' = Invoking(call).call
  /\ UNCHANGED <<commands, phase, expanded, conv, shell, dir_stack, cwd, dir_call>>

\* The caller has the result and goes back to reading input.
Leave ==
  /\ pc = "Done"
  /\ pc' = "Idle"
  /\ call' = NoCall
  /\ UNCHANGED <<commands, phase, expanded, conv, shell, dir_stack, cwd, dir_call>>

NextPhases ==
  RegisterPhases \/ Link \/ Enter \/ Resolve \/ ArityCheck \/ Bind \/ Invoke \/ Leave

\* A call runs on the caller's thread without interruption: a step that
\* can be taken is taken.
SpecPhases ==
  Init /\ [][NextPhases]_vars /\ WF_vars(Resolve \/ ArityCheck \/ Bind \/ Invoke)

(***************************************************************************)
(* The shell's read loop                                                   *)
(***************************************************************************)
HelpName == <<"h", "e", "l", "p">>

\* help takes the raw tokens and at most one of them; the site is written
\* with the one parameter list of that count whose conversion is the
\* identity.
HelpSite == [name |-> HelpName, aliases |-> <<>>, params |-> << <<"Option", "String">> >>]

ShellSites ==
  {HelpSite, [name |-> <<"l", "s">>, aliases |-> << <<"q">> >>, params |-> << <<"u8">> >>]}

ShellCmds == {HelpName, <<"l", "s">>, <<"q">>, <<"z">>}

ShellArgTokens == {<<"l", "s">>, <<"z">>, <<"7">>}

\* How the operating system answers the spawn of a program and how the
\* program ends.
ExeOutcomes == {"NotFound", "PermissionDenied", "Success", "Failure"}

cmd_help(args) ==
  CASE Len(args) = 0 -> Ok
    [] Len(args) = 1 -> IF IsSome(find(args[1])) THEN Ok ELSE CommandNotFound(args[1])
    [] OTHER -> [tag |-> "Panic"]

call_executable(name, args, exe) ==
  CASE exe = "NotFound" -> CommandNotFound(name)
    [] exe = "PermissionDenied" ->
         CommandFailed(<<"Permission denied for '">> \o name \o <<"'">>)
    [] exe = "Success" -> Ok
    [] OTHER -> CommandFailed(<<"Program '">> \o name \o <<"' exited with code: '", "1", "'">>)

\* What the command function of the resolved command returns: help's
\* return value follows from its argument, any other's is world.
returns(cmd, args, world) ==
  LET found == find(cmd)
  IN IF IsSome(found) /\ found.some.name = HelpName THEN cmd_help(args) ELSE world

\* The or_else of the loop body: call_executable when the result of
\* execute_command is CommandNotFound. attempted lists the programs handed
\* to the operating system.
or_else(executed, cmd, args, exe) ==
  IF executed.tag = "CommandNotFound"
  THEN [attempted |-> <<[name |-> cmd, args |-> args]>>,
        result |-> call_executable(cmd, args, exe)]
  ELSE [attempted |-> <<>>, result |-> executed]

line(cmd, args, r, exe) ==
  [cmd |-> cmd, args |-> args, found |-> r.found, invoked |-> r.invoked,
   executed |-> r.result,
   attempted |-> or_else(r.result, cmd, args, exe).attempted,
   result |-> or_else(r.result, cmd, args, exe).result]

\* One line of input.
ReadLine(cmd, args, world, exe) ==
  /\ shell' = Some(line(cmd, args, execute_command(cmd, args, returns(cmd, args, world)), exe))
  /\ UNCHANGED <<commands, phase, expanded, call, conv, pc, dir_stack, cwd, dir_call>>

RegisterShell ==
  /\ phase = "Building"
  /\ Len(commands) < MaxCommands
  /\ \E site \in ShellSites : Command(site)

Loop ==
  /\ phase = "Frozen"
  /\ shell = None
  /\ \E cmd \in ShellCmds, args \in SeqsUpTo(ShellArgTokens, MaxArgs),
        world \in FnOutcomes, exe \in ExeOutcomes :
       ReadLine(cmd, args, world, exe)

\* The iteration ends; the loop prints the prompt again.
Prompt ==
  /\ shell # None
  /\ shell' = None
  /\ UNCHANGED <<commands, phase, expanded, call, conv, pc, dir_stack, cwd, dir_call>>

NextShell == RegisterShell \/ Link \/ Loop \/ Prompt

SpecShell == Init /\ [][NextShell]_vars

(***************************************************************************)
(* pushd and popd                                                          *)
(***************************************************************************)
\* The directories of the file system; a path is the sequence of its
\* components below the root.
Dirs == {<<>>, <<"a">>, <<"a", "b">>, <<"c">>}

\* What the user can type after pushd.
Targets ==
  {[absolute |-> FALSE, components |-> <<"a">>],
   [absolute |-> FALSE, components |-> <<"b">>],
   [absolute |-> FALSE, components |-> <<"c">>],
   [absolute |-> FALSE, components |-> <<"..">>],
   [absolute |-> TRUE, components |-> <<"a", "b">>],
   [absolute |-> TRUE, components |-> <<"c">>]}

\* PathBuf::push: an absolute path replaces, a relative one is appended.
path_push(dir, target) ==
  IF target.absolute THEN target.components ELSE dir \o target.components

\* The directory the operating system reaches for a path: ".." steps up,
\* and stays at the root there.
RECURSIVE resolve(_, _)
resolve(path, acc) ==
  IF path = <<>> THEN acc
  ELSE IF Head(path) = ".."
  THEN resolve(Tail(path), IF acc = <<>> THEN <<>> ELSE SubSeq(acc, 1, Len(acc) - 1))
  ELSE resolve(Tail(path), Append(acc, Head(path)))

\* current_ok and chdir_ok: whether env::current_dir and
\* env::set_current_dir succeed; a path that names no directory always
\* fails.
cmd_pushd(target, current_ok, chdir_ok) ==
  IF ~current_ok
  THEN [result |-> CommandFailed(<<"Failed to get current directory">>),
        stack |-> dir_stack, cwd |-> cwd]
  ELSE LET curr_dir == cwd
           new_dir == resolve(path_push(curr_dir, target), <<>>)
       IN IF ~(chdir_ok /\ new_dir \in Dirs)
          THEN [result |-> CommandFailed(<<"Error changing directory">>),
                stack |-> dir_stack, cwd |-> cwd]
          ELSE [result |-> Ok, stack |-> Append(dir_stack, curr_dir), cwd |-> new_dir]

cmd_popd(chdir_ok) ==
  IF dir_stack = <<>>
  THEN [result |-> CommandFailed(<<"Directory stack is empty">>),
        stack |-> dir_stack, cwd |-> cwd]
  ELSE LET dir == dir_stack[Len(dir_stack)]
           popped == SubSeq(dir_stack, 1, Len(dir_stack) - 1)
       IN IF chdir_ok
          THEN [result |-> Ok, stack |-> popped, cwd |-> dir]
          ELSE [result |-> CommandFailed(<<"Error changing directory">>),
                stack |-> popped, cwd |-> cwd]

Pushd ==
  /\ Len(dir_stack) < MaxStack
  /\ \E target \in Targets, current_ok \in BOOLEAN, chdir_ok \in BOOLEAN :
       LET r == cmd_pushd(target, current_ok, chdir_ok)
       IN /\ dir_stack' = r.stack
          /\ cwd' = r.cwd
          /\ dir_call' = [op |-> "pushd", result |-> r.result,
                          stack_before |-> dir_stack, cwd_before |-> cwd]
  /\ UNCHANGED <<commands, phase, expanded, call, conv, pc, shell>>

Popd ==
  /\ \E chdir_ok \in BOOLEAN :
       LET r == cmd_popd(chdir_ok)
       IN /\ dir_stack' = r.stack
          /\ cwd' = r.cwd
          /\ dir_call' = [op |-> "popd", result |-> r.result,
                          stack_before |-> dir_stack, cwd_before |-> cwd]
  /\ UNCHANGED <<commands, phase, expanded, call, conv, pc, shell>>

NextDirs == Pushd \/ Popd

SpecDirs == Init /\ [][NextDirs]_vars

(***************************************************************************)
(* Claims                                                                  *)
(***************************************************************************)

\* C1: when the called token resolves a registered command and the call has
\* fewer tokens than that command's min, the call returns TooFewArguments
\* carrying the given token count and that command's descriptor, and no
\* command function is run.
C1_TooFewArguments ==
  call # NoCall =>
    \A i \in DOMAIN commands :
      LET named(j) == \/ commands[j].name = call.name
                      \/ \E k \in DOMAIN commands[j].aliases : commands[j].aliases[k] = call.name
      IN (named(i) /\ (\A j \in 1..(i - 1) : ~named(j)) /\ Len(call.args) < commands[i].min)
           => /\ call.result = [tag |-> "TooFewArguments", given |-> Len(call.args),
                                info |-> commands[i]]
              /\ call.invoked = <<>>

C1_Witness ==
  /\ call # NoCall
  /\ Len(commands) = 1
  /\ commands[1].min = 2
  /\ Len(call.args) = 1
  /\ call.result.tag = "TooFewArguments"
  /\ call.result.given = 1
  /\ call.invoked = <<>>

\* C2: when the resolved command's max is bounded and the call has more
\* tokens than max, the call returns TooManyArguments for that command and
\* no command function is run; when max is the unbounded sentinel the call
\* never returns TooManyArguments.
C2_TooManyArguments ==
  call # NoCall =>
    \A i \in DOMAIN commands :
      LET named(j) == \/ commands[j].name = call.name
                      \/ \E k \in DOMAIN commands[j].aliases : commands[j].aliases[k] = call.name
      IN (named(i) /\ (\A j \in 1..(i - 1) : ~named(j)))
           => /\ (commands[i].max # USIZE_MAX /\ Len(call.args) > commands[i].max)
                   => /\ call.result.tag = "TooManyArguments"
                      /\ call.result.info = commands[i]
                      /\ call.invoked = <<>>
              /\ commands[i].max = USIZE_MAX => call.result.tag # "TooManyArguments"

C2_Witness ==
  /\ call # NoCall
  /\ Len(commands) = 1
  /\ commands[1].max = 2
  /\ Len(call.args) = 3
  /\ call.result.tag = "TooManyArguments"
  /\ call.invoked = <<>>

\* C3: a call returns CommandNotFound(name) exactly when no registered
\* descriptor has the called token as its name or among its aliases, compared
\* for exact equality; then no command function is run.
C3_CommandNotFound ==
  call # NoCall =>
    LET known == \E i \in DOMAIN commands :
                   \/ commands[i].name = call.name
                   \/ \E k \in DOMAIN commands[i].aliases : commands[i].aliases[k] = call.name
    IN /\ (call.result = [tag |-> "CommandNotFound", name |-> call.name]) <=> ~known
       /\ ~known => call.invoked = <<>>

C3_Witness ==
  /\ call # NoCall
  /\ call.name = <<"L", "S">>
  /\ \E i \in DOMAIN commands : commands[i].name = <<"l", "s">>
  /\ call.result = [tag |-> "CommandNotFound", name |-> <<"L", "S">>]
  /\ call.invoked = <<>>

\* C4 (as claimed): if some descriptor is named by the called token the
\* lookup resolves a descriptor of that name, even when an earlier descriptor
\* lists the token as an alias; otherwise it resolves the first descriptor,
\* in registration order, whose aliases contain the token.
C4_NamePriority ==
  call # NoCall =>
    LET byName == {i \in DOMAIN commands : commands[i].name = call.name}
        byAlias == {i \in DOMAIN commands :
                      \E k \in DOMAIN commands[i].aliases : commands[i].aliases[k] = call.name}
    IN /\ byName # {} => (IsSome(call.found) /\ call.found.some.name = call.name)
       /\ (byName = {} /\ byAlias # {})
            => call.found = Some(commands[CHOOSE i \in byAlias : \A j \in byAlias : i <= j])

\* C5 (as claimed): once the registry is built, the lookup of every
\* descriptor's name returns that descriptor, and the lookup of every alias
\* returns a descriptor that lists the alias.
C5_FindRoundTrip ==
  phase = "Frozen" =>
    \A i \in DOMAIN commands :
      /\ find(commands[i].name) = Some(commands[i])
      /\ \A k \in DOMAIN commands[i].aliases :
           LET f == find(commands[i].aliases[k])
           IN /\ IsSome(f)
              /\ \E m \in DOMAIN f.some.aliases : f.some.aliases[m] = commands[i].aliases[k]

\* C6 (as claimed): a call made through an alias of a descriptor resolves
\* the same descriptor, runs the same command function with the same
\* arguments and returns the same result as the call made through that
\* descriptor's name.
C6_AliasEquivalence ==
  call # NoCall =>
    \A i \in DOMAIN commands :
      (\E k \in DOMAIN commands[i].aliases : commands[i].aliases[k] = call.name)
        => LET byName == execute_command(commands[i].name, call.args, call.world)
           IN /\ call.found = byName.found
              /\ call.invoked = byName.invoked
              /\ call.result = byName.result

\* C7: when the arity checks pass and some token fails the converter of the
\* parameter it is bound to, the call returns the conversion error of the
\* first such token in positional order, the error message contains that raw
\* token, and the command function is not run.
C7_FailFast ==
  (call # NoCall /\ IsSome(call.found)) =>
    LET info == call.found.some
        params == info.params
        n == Len(params)
        len == Len(call.args)
        base(ty) == <<ty[Len(ty)]>>
        typeAt(j) == IF j <= n THEN base(params[j]) ELSE base(params[n])
        fails(j) == IsErr(Parse(typeAt(j), call.args[j]))
        failing == {j \in 1..len : fails(j)}
        arityOK == info.min <= len /\ (info.max = USIZE_MAX \/ len <= info.max)
    IN (arityOK /\ failing # {})
         => LET p == CHOOSE j \in failing : \A k \in failing : j <= k
                tok == call.args[p]
            IN /\ call.result = Parse(typeAt(p), tok).err
               /\ call.result.tag = "CommandFailed"
               /\ \E k \in 1..Len(call.result.msg) :
                    SubSeq(call.result.msg, k, k + Len(tok) - 1) = tok
               /\ call.invoked = <<>>

C7_Witness ==
  /\ call # NoCall
  /\ Len(commands) = 1
  /\ commands[1].params = << <<"String">>, <<"Vec", "u8">> >>
  /\ call.args = << <<"x">>, <<"3", "0", "0">>, <<"x">> >>
  /\ call.result = [tag |-> "CommandFailed",
                    msg |-> <<"Invalid ", "u8", ": '", "3", "0", "0", "'">>]
  /\ call.invoked = <<>>

\* C8: when the token resolves, the arity checks pass, every token converts
\* and every required parameter has a token, the resolved command function
\* is run exactly once and the call returns that function's own result.
C8_HandlerResultUnchanged ==
  (call # NoCall /\ IsSome(call.found)) =>
    LET info == call.found.some
        params == info.params
        n == Len(params)
        len == Len(call.args)
        base(ty) == <<ty[Len(ty)]>>
        typeAt(j) == IF j <= n THEN base(params[j]) ELSE base(params[n])
        converts == \A j \in 1..len : ~IsErr(Parse(typeAt(j), call.args[j]))
        supplied == \A i \in 1..n : params[i][1] # "Option" => len >= i
        arityOK == info.min <= len /\ (info.max = USIZE_MAX \/ len <= info.max)
    IN (arityOK /\ converts /\ supplied)
         => /\ Len(call.invoked) = 1
            /\ call.invoked[1].handler = info.handler
            /\ call.result = call.world

C8_Witness ==
  /\ call # NoCall
  /\ IsSome(call.found)
  /\ call.found.some.params = << <<"u8">>, <<"Option", "String">> >>
  /\ call.args = << <<"7">>, <<"x">> >>
  /\ call.world = [tag |-> "CommandFailed", msg |-> <<"io error">>]
  /\ call.result = call.world
  /\ Len(call.invoked) = 1
  /\ call.invoked[1].args = <<7, [some |-> <<"x">>]>>

\* C9 (as claimed): the min of an expanded descriptor is the number of
\* parameters that are neither optional nor variadic.
C9_MinSkipsVariadic ==
  IsSome(expanded) =>
    LET params == expanded.some.params
        optional(ty) == ty[1] = "Option"
        variadic(ty) == \E k \in DOMAIN ty : ty[k] = "Vec"
    IN expanded.some.min =
         Cardinality({i \in DOMAIN params : ~optional(params[i]) /\ ~variadic(params[i])})

\* C9 (amended): the min of an expanded descriptor is the number of
\* parameters that are not optional; a required variadic parameter (Vec<T>)
\* counts as one, an optional one (Option<Vec<T>>) as none.
C9_MinCountsRequired ==
  IsSome(expanded) =>
    LET params == expanded.some.params
        optional(ty) == ty[1] = "Option"
        variadic(ty) == \E k \in DOMAIN ty : ty[k] = "Vec"
        scalars == {i \in DOMAIN params : ~optional(params[i]) /\ ~variadic(params[i])}
        vecs == {i \in DOMAIN params : ~optional(params[i]) /\ variadic(params[i])}
    IN expanded.some.min = Cardinality(scalars) + Cardinality(vecs)

C9_Witness ==
  /\ phase = "Frozen"
  /\ Len(commands) = 1
  /\ commands[1].params = << <<"String">>, <<"Option", "u8">>, <<"Vec", "u8">> >>
  /\ commands[1].min = 2
  /\ expanded = Some(commands[1])

\* C10 (as claimed): the max of an expanded descriptor is the unbounded
\* sentinel when any parameter is variadic, Option<Vec<T>> included, and is
\* the number of parameters otherwise.
C10_MaxUnboundedIfVariadic ==
  IsSome(expanded) =>
    LET params == expanded.some.params
        variadic(ty) == \E k \in DOMAIN ty : ty[k] = "Vec"
    IN expanded.some.max =
         IF \E i \in DOMAIN params : variadic(params[i]) THEN USIZE_MAX ELSE Len(params)

\* C11 (as claimed): every registered descriptor has a valid shape (no
\* required parameter after an optional or variadic one, at most one
\* variadic parameter, and that one last), so no call whose token count
\* passed the dispatcher's arity checks returns TooFewArguments.
C11_InvalidShapeRejected ==
  /\ \A i \in DOMAIN commands :
       LET params == commands[i].params
           optional(ty) == ty[1] = "Option"
           variadic(ty) == \E k \in DOMAIN ty : ty[k] = "Vec"
       IN /\ \A a, b \in DOMAIN params :
               (a < b /\ (optional(params[a]) \/ variadic(params[a])))
                 => (optional(params[b]) \/ variadic(params[b]))
          /\ \A a \in DOMAIN params : variadic(params[a]) => a = Len(params)
  /\ (call # NoCall /\ IsSome(call.found) /\ call.result.tag = "TooFewArguments")
       => Len(call.args) < call.found.some.min

\* C12 (as claimed): when the last parameter is a required Vec<T> at
\* position i and the call supplies exactly i tokens, the call does not
\* return TooFewArguments and the command function is run with an empty
\* vector.
C12_EmptyVariadicAccepted ==
  (call # NoCall /\ IsSome(call.found)) =>
    LET params == call.found.some.params
        n == Len(params)
    IN (n > 0 /\ params[n][1] = "Vec" /\ Len(call.args) = n - 1)
         => /\ call.result.tag # "TooFewArguments"
            /\ Len(call.invoked) = 1
            /\ call.invoked[1].args[n] = <<>>

\* C12 (amended): when the last parameter is a required Vec<T> at position i
\* and the call supplies exactly i tokens, the command function is not run;
\* if each of the i tokens converts, the call returns TooFewArguments
\* carrying i and the descriptor.
C12_EmptyVariadicRejected ==
  (call # NoCall /\ IsSome(call.found)) =>
    LET params == call.found.some.params
        n == Len(params)
        converts == \A j \in 1..Len(call.args) :
                      ~IsErr(Parse(<<params[j][Len(params[j])]>>, call.args[j]))
    IN (n > 0 /\ params[n][1] = "Vec" /\ Len(call.args) = n - 1)
         => /\ call.invoked = <<>>
            /\ converts => call.result = [tag |-> "TooFewArguments", given |-> n - 1,
                                          info |-> call.found.some]

C12_Witness ==
  /\ call # NoCall
  /\ IsSome(call.found)
  /\ call.found.some.params = << <<"Option", "String">>, <<"Vec", "u8">> >>
  /\ call.args = << <<"x">> >>
  /\ call.result.tag = "TooFewArguments"
  /\ call.result.given = 1
  /\ call.invoked = <<>>

\* C13: when the command function is run and the last parameter is a Vec<T>
\* at position i, it receives the conversions of all of args[i..] in the
\* original order, and every earlier parameter j receives the conversion of
\* args[j] (wrapped in Some for an Option<T> parameter).
C13_VariadicTakesRest ==
  (call # NoCall /\ IsSome(call.found) /\ Len(call.invoked) = 1) =>
    LET params == call.found.some.params
        n == Len(params)
        bound == call.invoked[1].args
        converted(ty, tok) == Parse(<<ty[Len(ty)]>>, tok).ok
    IN (n > 0 /\ params[n][1] = "Vec")
         => /\ Len(bound) = n
            /\ Len(bound[n]) = Len(call.args) - (n - 1)
            /\ \A k \in 1..Len(bound[n]) :
                 bound[n][k] = converted(params[n], call.args[n - 1 + k])
            /\ \A j \in 1..(n - 1) :
                 bound[j] = IF params[j][1] = "Option"
                            THEN [some |-> converted(params[j], call.args[j])]
                            ELSE converted(params[j], call.args[j])

C13_Witness ==
  /\ call # NoCall
  /\ IsSome(call.found)
  /\ call.found.some.params = << <<"String">>, <<"Vec", "u8">> >>
  /\ call.args = << <<"7">>, <<"7">>, <<"+", "9">> >>
  /\ Len(call.invoked) = 1
  /\ call.invoked[1].args = << <<"7">>, <<7, 9>> >>

\* C14: the bool converter returns true for a token that equals "true"
\* ignoring case or is "1", false for a token that equals "false" ignoring
\* case or is "0", and for every other token, the empty one included, an
\* error whose message contains the token as typed.
C14_BoolConverter ==
  (IsSome(conv) /\ conv.some.ty = "bool") =>
    LET raw == conv.some.raw
        out == conv.some.out
        up(c) == CASE c = "t" -> "T" [] c = "r" -> "R" [] c = "u" -> "U" [] c = "e" -> "E"
                   [] c = "f" -> "F" [] c = "a" -> "A" [] c = "l" -> "L" [] c = "s" -> "S"
                   [] OTHER -> c
        same(w) == /\ Len(raw) = Len(w)
                   /\ \A k \in DOMAIN w : raw[k] = w[k] \/ raw[k] = up(w[k])
        isTrue == same(<<"t", "r", "u", "e">>) \/ same(<<"1">>)
        isFalse == same(<<"f", "a", "l", "s", "e">>) \/ same(<<"0">>)
    IN /\ isTrue => out = [ok |-> TRUE]
       /\ isFalse => out = [ok |-> FALSE]
       /\ (~isTrue /\ ~isFalse)
            => /\ "err" \in DOMAIN out
               /\ out.err.tag = "CommandFailed"
               /\ \E k \in 1..(Len(out.err.msg) + 1) :
                    SubSeq(out.err.msg, k, k + Len(raw) - 1) = raw

C14_Witness ==
  /\ IsSome(conv)
  /\ conv.some.ty = "bool"
  /\ conv.some.raw = <<"F", "a", "L", "s", "E">>
  /\ conv.some.out = [ok |-> FALSE]

\* C15: a call goes through Resolving, ArityChecking, Binding, Invoking and
\* Done in this order and never back; a step other than Invoking either goes
\* on to the next one or, on an error, straight to Done with that error and
\* without running the command function; Invoking ends in Done with what the
\* command function returned; and every call whose command function returns
\* reaches Done.
C15_PhaseOrder ==
  /\ [][LET c == call
            d == call'
            info == c.found.some
            errors == {"TooFewArguments", "TooManyArguments", "CommandNotFound",
                       "CommandFailed"}
            failed == /\ pc' = "Done"
                      /\ IsSome(d.result)
                      /\ d.result.some.tag \in errors
                      /\ d.invoked = <<>>
            b == generate_parse_exprs(info.params, 0, c.args, info, <<>>)
        IN CASE pc = "Idle" -> pc' \in {"Idle", "Resolving"}
             [] pc = "Resolving" ->
                  \/ pc' = "ArityChecking" /\ IsSome(d.found) /\ d.result = None
                  \/ failed /\ d.result.some = CommandNotFound(c.name)
             [] pc = "ArityChecking" ->
                  \/ /\ pc' = "Binding"
                     /\ d = c
                     /\ Len(c.args) >= info.min
                     /\ (Len(c.args) <= info.max \/ info.max = USIZE_MAX)
                  \/ /\ failed
                     /\ d.result.some \in {TooFewArguments(Len(c.args), info),
                                           TooManyArguments(Len(c.args), info)}
             [] pc = "Binding" ->
                  \/ pc' = "Invoking" /\ ~IsErr(b) /\ d.bound = b.ok /\ d.result = None
                  \/ failed /\ IsErr(b) /\ d.result.some = b.err
             [] pc = "Invoking" ->
                  /\ pc' = "Done"
                  /\ d.result = Some(c.world)
                  /\ d.invoked = <<[handler |-> info.handler, args |-> c.bound]>>
             [] pc = "Done" -> pc' = "Idle"]_vars
  /\ (pc = "Resolving" /\ call.world # Diverges) ~> (pc = "Done")

C15_Witness ==
  /\ pc = "Done"
  /\ IsSome(call.found)
  /\ call.found.some.params = << <<"String">>, <<"Vec", "u8">> >>
  /\ call.args = << <<"x">>, <<"7">>, <<"x">> >>
  /\ call.result = Some(CommandFailed(<<"Invalid ", "u8", ": '", "x", "'">>))
  /\ call.invoked = <<>>

\* C16: when no two registered commands share a name or alias, find gives
\* the same descriptor for every token and execute_command the same result
\* and the same command function run, whatever the order in which the
\* descriptors lie in the COMMANDS slice.
C16_OrderIndependent ==
  LET n == Len(commands)
      tokens(info) == {info.name} \cup {info.aliases[k] : k \in DOMAIN info.aliases}
      collisionFree == \A i, j \in 1..n : i # j => tokens(commands[i]) \cap tokens(commands[j]) = {}
      orders == {f \in [1..n -> 1..n] : \A i, j \in 1..n : f[i] = f[j] => i = j}
      laidOut(f) == [i \in 1..n |-> commands[f[i]]]
  IN collisionFree =>
       \A f \in orders :
         /\ \A name \in NameTokens : find_in(laidOut(f), name) = find_in(commands, name)
         /\ call # NoCall =>
              execute_command_in(laidOut(f), call.name, call.args, call.world)
                = [result |-> call.result, invoked |-> call.invoked, found |-> call.found]

C16_Witness ==
  /\ Len(commands) = 2
  /\ commands[1].name = <<"l", "s">>
  /\ commands[1].aliases = <<>>
  /\ commands[2].name = <<"q">>
  /\ commands[2].aliases = <<>>
  /\ call # NoCall
  /\ call.name = <<"q">>
  /\ call.found = Some(commands[2])
  /\ Len(call.invoked) = 1
  /\ call.invoked[1].handler = 2

\* C17 (as claimed): the read loop hands a program to the operating system
\* only for a line whose first token matches no registered name or alias;
\* when a registered command resolved, whatever it returned, no program is
\* attempted.
C17_FallbackOnlyWhenUnmatched ==
  (IsSome(shell) /\ shell.some.attempted # <<>>) =>
    ~\E i \in DOMAIN commands :
       \/ commands[i].name = shell.some.cmd
       \/ \E k \in DOMAIN commands[i].aliases : commands[i].aliases[k] = shell.some.cmd

\* C18 (as claimed): the directory stack changes only when pushd or popd
\* succeeds: a successful pushd puts the directory it left on top, a
\* successful popd takes the top off, and a pushd or popd that fails, popd
\* on the empty stack and popd whose change of directory fails included,
\* leaves the stack as it was.
C18_StackChangesOnlyOnSuccess ==
  dir_call # NoCall =>
    LET before == dir_call.stack_before
    IN /\ (dir_call.result # Ok) => dir_stack = before
       /\ (dir_call.op = "pushd" /\ dir_call.result = Ok)
            => dir_stack = Append(before, dir_call.cwd_before)
       /\ (dir_call.op = "popd" /\ dir_call.result = Ok)
            => /\ before # <<>>
               /\ dir_stack = SubSeq(before, 1, Len(before) - 1)
               /\ cwd = before[Len(before)]

====
